---- MODULE Spec2Model ----
(***************************************************************************)
(* CapSense sensor health check (source/checkSensor.c, checkSensor.h).     *)
(* checkSensor(sensorMask, resetBaseline) walks the widgets and their      *)
(* sensors, applies the hyper-event, no-man's-land and stuck-sensor tests  *)
(* to the sensors selected by sensorMask, keeps two static counters per    *)
(* sensor and returns the bit mask of abnormal sensors.                    *)
(*                                                                         *)
(* The CapSense data structure (widget configuration, widget context,      *)
(* sensor context) belongs to the CapSense middleware; its contents are    *)
(* inputs here.  One call of checkSensor is one step of the model.         *)
(***************************************************************************)
EXTENDS Integers, Naturals, Sequences, FiniteSets, TLC

(***************************************************************************)
(* checkSensor.h                                                           *)
(***************************************************************************)
\* The header sets the timeouts to 6000 and 3000 msec (600 and 300 scans).
\* The model keeps the derivation COUNT = TIMEOUT / SCAN_TIME and scales the
\* timeouts down to StuckScans and NoMansLandScans scan periods.
StuckScans == 3
NoMansLandScans == 2

HYPER_EVENT_FTH_MULTIPLIER == 2
CAPSENSE_TOTAL_SCAN_TIME_MSEC == 10

STUCK_SENSOR_TIMEOUT_MSEC == StuckScans * CAPSENSE_TOTAL_SCAN_TIME_MSEC
NO_MANS_LAND_TIMEOUT_MSEC == NoMansLandScans * CAPSENSE_TOTAL_SCAN_TIME_MSEC

STUCK_SENSOR_COUNT == STUCK_SENSOR_TIMEOUT_MSEC \div CAPSENSE_TOTAL_SCAN_TIME_MSEC
NO_MANS_LAND_COUNT == NO_MANS_LAND_TIMEOUT_MSEC \div CAPSENSE_TOTAL_SCAN_TIME_MSEC

\* status bit tested at checkSensor.c line 113
CY_CAPSENSE_SNS_TOUCH_STATUS_MASK == 1

(***************************************************************************)
(* uint32_t bit fields.  A bit field is the set of the positions of its    *)
(* one bits: 0x00 is {}, 0b01 is {0}, 0b10 is {1}, 0xffffffff is 0 .. 31.  *)
(***************************************************************************)
WordBits == 32

BitPositions == 0 .. (WordBits - 1)

\* faulty variant: the shift cannot set the sign bit of the int it is made in
Shl1Signed(n) == {n} \cap (0 .. (WordBits - 2))

\* 1 << n, for n < WordBits (sensor indices stay below the configured count).
\* The shift is made in a 32-bit int; for n = 31 the build's compilers shift
\* into the sign bit (GCC defines signed << this way), and the conversion to
\* uint32_t for the & gives bit 31.
Shl1(n) == {n} \cap BitPositions

\* x & y
And(x, y) == x \cap y

\* x | y
Or(x, y) == x \cup y

\* status & mask on the integer status byte, for a single-bit mask
AndMask(status, mask) == IF (status \div mask) % 2 = 1 THEN mask ELSE 0

\* checkSensor.h: ALL_SENSORS (0xffffffff)
ALL_SENSORS == BitPositions

\* C array literal: element k of the array is s[k+1]
Arr(s) == [k \in 0 .. (Len(s) - 1) |-> s[k + 1]]

ArrLen(a) == Cardinality(DOMAIN a)

(***************************************************************************)
(* The CapSense data structure, as far as checkSensor reads it             *)
(***************************************************************************)
WdContext(ft, nt, hyst) == [fingerTh |-> ft, noiseTh |-> nt, hysteresis |-> hyst]

\* Configurations: numSns per widget (cy_capsense_context.ptrWdConfig) and the
\* thresholds per widget (cy_capsense_tuner.widgetContext).
Configurations ==
    { [numSns |-> Arr(<<1, 1>>),
       widgetContext |-> Arr(<<WdContext(100, 20, 10), WdContext(200, 50, 20)>>)],
      [numSns |-> Arr(<<1, 1>>),
       widgetContext |-> Arr(<<WdContext(200, 50, 20), WdContext(100, 20, 10)>>)],
      [numSns |-> Arr(<<2>>),
       widgetContext |-> Arr(<<WdContext(100, 20, 10)>>)] }

\* a configuration that uses every bit of the selector: two widgets of
\* WordBits / 2 sensors each
WideConfiguration ==
    [numSns |-> Arr(<<WordBits \div 2, WordBits \div 2>>),
     widgetContext |-> Arr(<<WdContext(100, 20, 10), WdContext(200, 50, 20)>>)]

\* a configuration whose first widget has a hysteresis above its finger
\* threshold, so that a signal can be above the hyper-event level and inside
\* the no-man's-land band at once
OverlapConfiguration ==
    [numSns |-> Arr(<<1, 1>>),
     widgetContext |-> Arr(<<WdContext(10, 5, 20), WdContext(100, 20, 10)>>)]

\* one element of cy_capsense_tuner.sensorContext, as far as it is read
Reading(diff, status) == [diff |-> diff, status |-> status]

RECURSIVE SumTo(_, _)
SumTo(a, n) == IF n = 0 THEN 0 ELSE a[n - 1] + SumTo(a, n - 1)

\* number of elements of cy_capsense_tuner.sensorContext
NumSensors(cfg) == SumTo(cfg.numSns, ArrLen(cfg.numSns))

VARIABLES
    config,             \* the CapSense configuration (fixed at build time)
    sensorContext,      \* cy_capsense_tuner.sensorContext at the last call
    noMansLandCounter,  \* static uint32_t noMansLandCounter[]
    stuckCounter,       \* static uint32_t stuckCounter[]
    sensorMask,         \* argument of the last call
    resetBaseline,      \* argument of the last call
    result,             \* value returned by the last call
    events,             \* what the last call did, in order
    scenario,           \* history: calls of the end-to-end scenario made so far
    nmlRun,             \* history: in-band streaks per sensor
    nmlSeen,            \* history: in-band calls per sensor
    stuckRun,           \* history: touched streaks per sensor
    stuckSeen,          \* history: touched calls per sensor
    twin,               \* a second run fed the same inputs, with its own resetBaseline
    calls               \* invocations in progress: position, value held, local result

coreVars == <<config, sensorContext, noMansLandCounter, stuckCounter,
              sensorMask, resetBaseline, result, events>>

vars == <<config, sensorContext, noMansLandCounter, stuckCounter,
          sensorMask, resetBaseline, result, events,
          scenario, nmlRun, nmlSeen, stuckRun, stuckSeen, twin, calls>>

(***************************************************************************)
(* checkSensor                                                             *)
(***************************************************************************)
\* faulty variant: the two arguments in the wrong order
BaselineCallSwapped(widgetID, snsNum) ==
    [op |-> "InitializeSensorBaseline", widgetId |-> snsNum, sensorId |-> widgetID]

\* Cy_CapSense_InitializeSensorBaseline(widgetID, snsNum, &cy_capsense_context)
BaselineCall(widgetID, snsNum) ==
    [op |-> "InitializeSensorBaseline", widgetId |-> widgetID, sensorId |-> snsNum]

\* result |= 1 << sensorIndex, noted with the test that reported
ReportEvent(sensorIndex, rule) ==
    [op |-> "report", bit |-> sensorIndex, rule |-> rule]

\* if(true == resetBaseline) Cy_CapSense_InitializeSensorBaseline(...);
\* result |= 1 << sensorIndex;
Anomaly(st, widgetID, snsNum, rb, rule) ==
    [st EXCEPT
        !.events = (IF rb = TRUE THEN Append(@, BaselineCall(widgetID, snsNum)) ELSE @)
                   \o <<ReportEvent(st.sensorIndex, rule)>>,
        !.result = Or(@, Shl1(st.sensorIndex))]

\* faulty variant: tests the whole mask instead of the sensor's bit
MaskSelectsAny(mask, sensorIndex) == mask # {}

\* sensorMask & (1 << sensorIndex)
MaskSelects(mask, sensorIndex) == And(mask, Shl1(sensorIndex)) # {}

\* ptrSensors->diff > HYPER_EVENT_FTH_MULTIPLIER * ptrWdContext->fingerTh
HyperCondition(sns, wd) == sns.diff > HYPER_EVENT_FTH_MULTIPLIER * wd.fingerTh

\* ptrSensors->diff > noiseTh && ptrSensors->diff < fingerTh + hysteresis
NoMansLandCondition(sns, wd) ==
    sns.diff > wd.noiseTh /\ sns.diff < (wd.fingerTh + wd.hysteresis)

\* 0 != (ptrSensors->status & CY_CAPSENSE_SNS_TOUCH_STATUS_MASK)
StuckCondition(sns) == 0 # AndMask(sns.status, CY_CAPSENSE_SNS_TOUCH_STATUS_MASK)

\* faulty variants: >= instead of >
NoMansLandExceededEarly(count) == count >= NO_MANS_LAND_COUNT

StuckExceededEarly(count) == count >= STUCK_SENSOR_COUNT

\* noMansLandCounter[sensorIndex] > NO_MANS_LAND_COUNT
NoMansLandExceeded(count) == count > NO_MANS_LAND_COUNT

\* faulty variant: the sensor is reported one scan late
StuckExceededLate(count) == count > STUCK_SENSOR_COUNT + 1

\* stuckCounter[sensorIndex] > STUCK_SENSOR_COUNT
StuckExceeded(count) == count > STUCK_SENSOR_COUNT

\* test for hyper event
HyperEventTest(st, cs, widgetID, snsNum, rb) ==
    IF HyperCondition(cs.sensorContext[st.ptrSensors], cs.widgetContext[st.ptrWdContext])
    THEN Anomaly(st, widgetID, snsNum, rb, "hyper")
    ELSE st

\* faulty variant: the counter is cleared only together with the baseline reset
NoMansLandTestResetGuarded(st, cs, widgetID, snsNum, rb) ==
    IF NoMansLandCondition(cs.sensorContext[st.ptrSensors], cs.widgetContext[st.ptrWdContext])
    THEN LET inc == [st EXCEPT !.noMansLandCounter[st.sensorIndex] = @ + 1]
         IN  IF inc.noMansLandCounter[st.sensorIndex] > NO_MANS_LAND_COUNT
             THEN [Anomaly(inc, widgetID, snsNum, rb, "nml")
                       EXCEPT !.noMansLandCounter[st.sensorIndex] = IF rb THEN 0 ELSE @]
             ELSE inc
    ELSE st

\* test for No Man's Land (the uint32_t counter is cleared once it exceeds the
\* count, far below the wrap of the increment)
NoMansLandTest(st, cs, widgetID, snsNum, rb) ==
    IF NoMansLandCondition(cs.sensorContext[st.ptrSensors], cs.widgetContext[st.ptrWdContext])
    THEN LET inc == [st EXCEPT !.noMansLandCounter[st.sensorIndex] = @ + 1]
         IN  IF NoMansLandExceeded(inc.noMansLandCounter[st.sensorIndex])
             THEN [Anomaly(inc, widgetID, snsNum, rb, "nml")
                       EXCEPT !.noMansLandCounter[st.sensorIndex] = 0]
             ELSE inc
    ELSE st

\* faulty variant: an untouched sensor has its counter cleared
StuckSensorTestClearing(st, cs, widgetID, snsNum, rb) ==
    IF StuckCondition(cs.sensorContext[st.ptrSensors])
    THEN LET inc == [st EXCEPT !.stuckCounter[st.sensorIndex] = @ + 1]
         IN  IF inc.stuckCounter[st.sensorIndex] > STUCK_SENSOR_COUNT
             THEN [Anomaly(inc, widgetID, snsNum, rb, "stuck")
                       EXCEPT !.stuckCounter[st.sensorIndex] = 0]
             ELSE inc
    ELSE [st EXCEPT !.stuckCounter[st.sensorIndex] = 0]

\* test for stuck sensor
StuckSensorTest(st, cs, widgetID, snsNum, rb) ==
    IF StuckCondition(cs.sensorContext[st.ptrSensors])
    THEN LET inc == [st EXCEPT !.stuckCounter[st.sensorIndex] = @ + 1]
         IN  IF StuckExceeded(inc.stuckCounter[st.sensorIndex])
             THEN [Anomaly(inc, widgetID, snsNum, rb, "stuck")
                       EXCEPT !.stuckCounter[st.sensorIndex] = 0]
             ELSE inc
    ELSE st

\* faulty variant: a test is skipped once an earlier test has reported the sensor
ProcessSensorFirstTrip(st, cs, widgetID, snsNum, rb) ==
    LET hyper == HyperEventTest(st, cs, widgetID, snsNum, rb)
        nml   == IF hyper.result = st.result
                 THEN NoMansLandTest(hyper, cs, widgetID, snsNum, rb)
                 ELSE hyper
    IN  IF nml.result = st.result
        THEN StuckSensorTest(nml, cs, widgetID, snsNum, rb)
        ELSE nml

\* the three tests of a selected sensor, in source order
ProcessSensor(st, cs, widgetID, snsNum, rb) ==
    StuckSensorTest(
        NoMansLandTest(
            HyperEventTest(st, cs, widgetID, snsNum, rb),
            cs, widgetID, snsNum, rb),
        cs, widgetID, snsNum, rb)

\* the tests of sensor sensorIndex (sensor snsNum of widget widgetID) begin
ExamineEvent(sensorIndex, widgetID, snsNum) ==
    [op |-> "examine", bit |-> sensorIndex, widgetId |-> widgetID, sensorId |-> snsNum]

\* faulty variant: the sensor index is not advanced with the sensor pointer
SensorBodyShared(st, cs, widgetID, snsNum, mask, rb) ==
    LET done == IF MaskSelects(mask, st.sensorIndex)
                THEN ProcessSensor(
                         [st EXCEPT !.events =
                              Append(@, ExamineEvent(st.sensorIndex, widgetID, snsNum))],
                         cs, widgetID, snsNum, rb)
                ELSE st
    IN  [done EXCEPT !.ptrSensors = @ + 1]

\* body of the sensor loop
SensorBody(st, cs, widgetID, snsNum, mask, rb) ==
    LET done == IF MaskSelects(mask, st.sensorIndex)
                THEN ProcessSensor(
                         [st EXCEPT !.events =
                              Append(@, ExamineEvent(st.sensorIndex, widgetID, snsNum))],
                         cs, widgetID, snsNum, rb)
                ELSE st
    IN  [done EXCEPT !.ptrSensors = @ + 1, !.sensorIndex = @ + 1]

RECURSIVE SensorLoop(_, _, _, _, _, _)
SensorLoop(st, cs, widgetID, snsNum, mask, rb) ==
    IF snsNum < cs.numSns[st.ptrWdConfig]
    THEN SensorLoop(SensorBody(st, cs, widgetID, snsNum, mask, rb),
                    cs, widgetID, snsNum + 1, mask, rb)
    ELSE st

\* end of the widget loop body: ptrWdConfig++ (ptrWdContext is not advanced)
NextWidget(st) == [st EXCEPT !.ptrWdConfig = @ + 1]

RECURSIVE WidgetLoop(_, _, _, _, _)
WidgetLoop(st, cs, widgetID, mask, rb) ==
    IF widgetID < ArrLen(cs.widgetContext)
    THEN WidgetLoop(NextWidget(SensorLoop(st, cs, widgetID, 0, mask, rb)),
                    cs, widgetID + 1, mask, rb)
    ELSE st

\* locals of checkSensor at the top of the widget loop
Entry(nml, stuck) ==
    [result |-> {}, sensorIndex |-> 0,
     ptrWdConfig |-> 0, ptrWdContext |-> 0, ptrSensors |-> 0,
     noMansLandCounter |-> nml, stuckCounter |-> stuck, events |-> <<>>]

\* the whole function: the locals when it returns
Run(cs, nml, stuck, mask, rb) == WidgetLoop(Entry(nml, stuck), cs, 0, mask, rb)

CapSense(cfg, sns) ==
    [numSns |-> cfg.numSns, widgetContext |-> cfg.widgetContext, sensorContext |-> sns]


(***************************************************************************)
(* Sensor numbering                                                        *)
(***************************************************************************)
SensorIds == 0 .. (NumSensors(config) - 1)

\* index of sensor snsNum of widget widgetID in the flattened sensor list
FlatIndex(cfg, widgetID, snsNum) == SumTo(cfg.numSns, widgetID) + snsNum

\* the widget sensor i belongs to, and i's index within it
WidgetOf(cfg, i) ==
    CHOOSE w \in DOMAIN cfg.numSns :
        SumTo(cfg.numSns, w) <= i /\ i < SumTo(cfg.numSns, w + 1)

SnsNumOf(cfg, i) == i - SumTo(cfg.numSns, WidgetOf(cfg, i))

\* thresholds of the widget sensor i belongs to
OwnContext(i) == config.widgetContext[WidgetOf(config, i)]

Min(a, b) == IF a < b THEN a ELSE b

(***************************************************************************)
(* History of the calls, kept for the properties                           *)
(***************************************************************************)
\* the calls of the end-to-end scenario, in order
ScenarioConfig ==
    [numSns |-> Arr(<<1, 1>>),
     widgetContext |-> Arr(<<WdContext(100, 20, 10), WdContext(200, 50, 20)>>)]

ScenarioLength == NO_MANS_LAND_COUNT + 3

ScenarioScan(k) ==
    IF k = 1 THEN Arr(<<Reading(250, 0), Reading(15, 0)>>)
    ELSE IF k = 2 THEN Arr(<<Reading(15, 0), Reading(15, 0)>>)
    ELSE Arr(<<Reading(15, 0), Reading(210, 0)>>)

\* scenario = k: the k calls made since start are the first k of the scenario;
\* -1: the calls made are not a prefix of the scenario
ScenarioAfter(mask, rb, sns) ==
    IF /\ config = ScenarioConfig
       /\ scenario \in 0 .. (ScenarioLength - 1)
       /\ mask = ALL_SENSORS
       /\ rb = FALSE
       /\ sns = ScenarioScan(scenario + 1)
    THEN scenario + 1
    ELSE -1

\* nmlRun[i] = k >= 1: the last k calls that selected i all found its signal
\* inside the band of its own widget, and the first of them began with
\* noMansLandCounter[i] = 0
NmlRunAfter(mask, sns) ==
    [i \in SensorIds |->
        IF i \notin mask THEN nmlRun[i]
        ELSE IF NoMansLandCondition(sns[i], OwnContext(i))
        THEN IF nmlRun[i] \in 1 .. NO_MANS_LAND_COUNT THEN nmlRun[i] + 1
             ELSE IF noMansLandCounter[i] = 0 THEN 1 ELSE 0
        ELSE 0]

\* the widget context the tests of a call read
ReadContext == Entry(<<>>, <<>>).ptrWdContext

\* nmlSeen[i].consec: selected calls of i, since the last selected call that
\*   found its signal outside the band of its own widget, all of them with the
\*   signal inside that band (capped at NO_MANS_LAND_COUNT + 1)
\* nmlSeen[i].total: selected calls of i, since the call that last brought the
\*   total to NO_MANS_LAND_COUNT + 1, with i's signal inside the band of the
\*   widget context the call read
NmlSeenAfter(mask, sns) ==
    [i \in SensorIds |->
        LET own == NoMansLandCondition(sns[i], OwnContext(i))
            read == i \in mask
                    /\ NoMansLandCondition(sns[i], config.widgetContext[ReadContext])
            base == IF nmlSeen[i].total = NO_MANS_LAND_COUNT + 1 THEN 0
                    ELSE nmlSeen[i].total
        IN  [consec |-> IF i \notin mask THEN nmlSeen[i].consec
                        ELSE IF own THEN Min(nmlSeen[i].consec + 1, NO_MANS_LAND_COUNT + 1)
                        ELSE 0,
             total |-> IF read THEN base + 1 ELSE base]]

\* stuckRun[i] = k >= 1: the last k calls that selected i all found it
\* touched, and the first of them began with stuckCounter[i] = 0
StuckRunAfter(mask, sns) ==
    [i \in SensorIds |->
        IF i \notin mask THEN stuckRun[i]
        ELSE IF StuckCondition(sns[i])
        THEN IF stuckRun[i] \in 1 .. STUCK_SENSOR_COUNT THEN stuckRun[i] + 1
             ELSE IF stuckCounter[i] = 0 THEN 1 ELSE 0
        ELSE 0]

\* stuckSeen[i].sinceGap: selected touched calls of i since the last selected
\*   call that found it untouched (capped at STUCK_SENSOR_COUNT + 1); -1 while
\*   there was no such untouched call
\* stuckSeen[i].total: selected touched calls of i since the call that last
\*   brought the total to STUCK_SENSOR_COUNT + 1
StuckSeenAfter(mask, sns) ==
    [i \in SensorIds |->
        LET touched == i \in mask /\ StuckCondition(sns[i])
            base == IF stuckSeen[i].total = STUCK_SENSOR_COUNT + 1 THEN 0
                    ELSE stuckSeen[i].total
        IN  [sinceGap |-> IF i \notin mask THEN stuckSeen[i].sinceGap
                          ELSE IF ~touched THEN 0
                          ELSE IF stuckSeen[i].sinceGap = -1 THEN -1
                          ELSE Min(stuckSeen[i].sinceGap + 1, STUCK_SENSOR_COUNT + 1),
             total |-> IF touched THEN base + 1 ELSE base]]

(***************************************************************************)
(* Initial state: static counters zero-initialised, nothing called yet     *)
(***************************************************************************)
Invocations == {1, 2}

\* no invocation in progress
NoCalls ==
    [inv |-> [p \in Invocations |-> [pc |-> "idle", reg |-> 0, result |-> {}]],
     start |-> [noMansLandCounter |-> <<>>, stuckCounter |-> <<>>],
     order |-> <<>>,
     overlap |-> FALSE]

InitWith(configurations) ==
    /\ config \in configurations
    /\ sensorContext = [k \in 0 .. (NumSensors(config) - 1) |-> Reading(0, 0)]
    /\ noMansLandCounter = [k \in 0 .. (NumSensors(config) - 1) |-> 0]
    /\ stuckCounter = [k \in 0 .. (NumSensors(config) - 1) |-> 0]
    /\ sensorMask = {}
    /\ resetBaseline = FALSE
    /\ result = {}
    /\ events = <<>>
    /\ scenario = 0
    /\ nmlRun = [k \in 0 .. (NumSensors(config) - 1) |-> 0]
    /\ nmlSeen = [k \in 0 .. (NumSensors(config) - 1) |-> [consec |-> 0, total |-> 0]]
    /\ stuckRun = [k \in 0 .. (NumSensors(config) - 1) |-> 0]
    /\ stuckSeen = [k \in 0 .. (NumSensors(config) - 1) |-> [sinceGap |-> -1, total |-> 0]]
    /\ twin = [noMansLandCounter |-> [k \in 0 .. (NumSensors(config) - 1) |-> 0],
               stuckCounter |-> [k \in 0 .. (NumSensors(config) - 1) |-> 0],
               result |-> {}, resetBaseline |-> FALSE]
    /\ calls = NoCalls

Init == InitWith(Configurations)

(***************************************************************************)
(* One call of checkSensor on the scan results sns                         *)
(***************************************************************************)
checkSensor(mask, rb, sns) ==
    \E ret \in {Run(CapSense(config, sns), noMansLandCounter, stuckCounter, mask, rb)} :
        /\ sensorContext' = sns
        /\ sensorMask' = mask
        /\ resetBaseline' = rb
        /\ noMansLandCounter' = ret.noMansLandCounter
        /\ stuckCounter' = ret.stuckCounter
        /\ result' = ret.result
        /\ events' = ret.events
        /\ UNCHANGED config

\* the same call made in the second run, with its own resetBaseline
twinCheckSensor(mask, rb2, sns) ==
    \E ret \in {Run(CapSense(config, sns), twin.noMansLandCounter, twin.stuckCounter, mask, rb2)} :
        twin' = [noMansLandCounter |-> ret.noMansLandCounter,
                 stuckCounter |-> ret.stuckCounter,
                 result |-> ret.result,
                 resetBaseline |-> rb2]

SensorMasks == {{0}, {1}, ALL_SENSORS}

Pair(r0, r1) == Arr(<<r0, r1>>)

\* scan results of the general specification
Scans ==
    { Pair(Reading(15, 0), Reading(15, 0)),
      Pair(Reading(105, 0), Reading(15, 0)),
      Pair(Reading(15, 0), Reading(105, 0)),
      Pair(Reading(15, 1), Reading(15, 2)),
      Pair(Reading(15, 2), Reading(15, 3)),
      Pair(Reading(250, 0), Reading(15, 0)),
      Pair(Reading(15, 0), Reading(250, 0)),
      Pair(Reading(450, 1), Reading(450, 1)),
      Pair(Reading(105, 1), Reading(210, 0)),
      Pair(Reading(210, 0), Reading(105, 1)) }

\* any call, on any of the scan results
Check ==
    \E mask \in SensorMasks, rb \in BOOLEAN, sns \in Scans :
        /\ checkSensor(mask, rb, sns)
        /\ UNCHANGED <<scenario, nmlRun, nmlSeen, stuckRun, stuckSeen, twin, calls>>

Next == Check

Spec == Init /\ [][Next]_vars

(***************************************************************************)
(* The end-to-end scenario and calls around it                             *)
(***************************************************************************)
ScenarioScans ==
    { ScenarioScan(k) : k \in 1 .. 3 }
    \cup { Pair(Reading(105, 0), Reading(15, 0)), Pair(Reading(15, 0), Reading(105, 0)) }

ScenarioCheck ==
    \E mask \in SensorMasks, rb \in BOOLEAN, sns \in ScenarioScans :
        /\ checkSensor(mask, rb, sns)
        /\ scenario' = ScenarioAfter(mask, rb, sns)
        /\ UNCHANGED <<nmlRun, nmlSeen, stuckRun, stuckSeen, twin, calls>>

SpecScenario == Init /\ [][ScenarioCheck]_vars

(***************************************************************************)
(* Calls on scans that vary the signal only: no man's land                 *)
(***************************************************************************)
SignalScans ==
    { Pair(Reading(d0, 0), Reading(d1, 0)) : d0 \in {15, 105, 210}, d1 \in {15, 105, 210} }

NmlCheck ==
    \E mask \in SensorMasks, rb \in BOOLEAN, sns \in SignalScans :
        /\ checkSensor(mask, rb, sns)
        /\ nmlRun' = NmlRunAfter(mask, sns)
        /\ nmlSeen' = NmlSeenAfter(mask, sns)
        /\ UNCHANGED <<scenario, stuckRun, stuckSeen, twin, calls>>

SpecNml == Init /\ [][NmlCheck]_vars

(***************************************************************************)
(* Calls on scans that vary the touch status only: stuck sensor            *)
(***************************************************************************)
StatusScans ==
    { Pair(Reading(15, s0), Reading(15, s1)) : s0 \in {0, 1, 2}, s1 \in {0, 1, 2} }

StuckCheck ==
    \E mask \in SensorMasks, rb \in BOOLEAN, sns \in StatusScans :
        /\ checkSensor(mask, rb, sns)
        /\ stuckRun' = StuckRunAfter(mask, sns)
        /\ stuckSeen' = StuckSeenAfter(mask, sns)
        /\ UNCHANGED <<scenario, nmlRun, nmlSeen, twin, calls>>

SpecStuck == Init /\ [][StuckCheck]_vars

(***************************************************************************)
(* Two runs on the same selectors and scans, each with its own             *)
(* resetBaseline arguments                                                 *)
(***************************************************************************)
PairScans ==
    { Pair(Reading(15, 0), Reading(15, 0)),
      Pair(Reading(105, 1), Reading(15, 0)),
      Pair(Reading(250, 0), Reading(105, 1)),
      Pair(Reading(15, 2), Reading(450, 1)) }

PairCheck ==
    \E mask \in SensorMasks, rb \in BOOLEAN, rb2 \in BOOLEAN, sns \in PairScans :
        /\ checkSensor(mask, rb, sns)
        /\ twinCheckSensor(mask, rb2, sns)
        /\ UNCHANGED <<scenario, nmlRun, nmlSeen, stuckRun, stuckSeen, calls>>

SpecPair == Init /\ [][PairCheck]_vars

(***************************************************************************)
(* What the last call did                                                  *)
(***************************************************************************)
\* the test named rule reported sensor i in the last call
Flagged(i, rule) == \E p \in DOMAIN events : events[p] = ReportEvent(i, rule)

\* the baseline of sensor i was reset in the last call
ResetFor(i) ==
    \E p \in DOMAIN events :
        events[p] = [op |-> "InitializeSensorBaseline",
                     widgetId |-> WidgetOf(config, i),
                     sensorId |-> SnsNumOf(config, i)]

\* bit i of the selector of the last call
Selected(i) == i \in sensorMask

(***************************************************************************)
(* Selector specification: configurations of up to WordBits sensors, and    *)
(* with every call a second call from the same state whose selector agrees  *)
(* with the first on the bits of the configured sensors                     *)
(***************************************************************************)
InitSelect == InitWith(Configurations \cup {WideConfiguration})

SelectMasks == {ALL_SENSORS, {0, 31}, {1, 5}}

\* selector bits above the configured sensors
HighBits == BitPositions \ SensorIds

HighBitChoices == {{}, HighBits}

\* scan results: the sensors in act are touched with a signal between the
\* thresholds, the others are idle
SelectScan(act) ==
    [k \in SensorIds |-> IF k \in act THEN Reading(60, 1) ELSE Reading(15, 0)]

SelectScans ==
    { SelectScan(act) : act \in {{NumSensors(config) - 1}, {0, NumSensors(config) - 1}} }

\* the call with selector mask2, made from the state the first call is made from
selectorTwin(mask2, rb, sns) ==
    \E ret \in {Run(CapSense(config, sns), noMansLandCounter, stuckCounter, mask2, rb)} :
        twin' = [noMansLandCounter |-> ret.noMansLandCounter,
                 stuckCounter |-> ret.stuckCounter,
                 result |-> ret.result,
                 resetBaseline |-> rb,
                 events |-> ret.events,
                 sensorMask |-> mask2]

SelectCheck ==
    \E mask \in SelectMasks, high \in HighBitChoices, rb \in BOOLEAN, sns \in SelectScans :
        /\ checkSensor(mask, rb, sns)
        /\ selectorTwin(And(mask, SensorIds) \cup high, rb, sns)
        /\ UNCHANGED <<scenario, nmlRun, nmlSeen, stuckRun, stuckSeen, calls>>

SpecSelect == InitSelect /\ [][SelectCheck]_vars

(***************************************************************************)
(* Rules specification: signals and statuses that make several rules trip  *)
(* in one call                                                              *)
(***************************************************************************)
InitRules == InitWith(Configurations \cup {OverlapConfiguration})

RuleScans ==
    { Pair(r0, r1) : r0 \in {Reading(25, 1), Reading(250, 1)},
                     r1 \in {Reading(25, 1), Reading(250, 0)} }

RulesCheck ==
    \E mask \in SensorMasks, rb \in BOOLEAN, sns \in RuleScans :
        /\ checkSensor(mask, rb, sns)
        /\ UNCHANGED <<scenario, nmlRun, nmlSeen, stuckRun, stuckSeen, twin, calls>>

SpecRules == InitRules /\ [][RulesCheck]_vars

(***************************************************************************)
(* Periodic calls: the scheduler calls checkSensor once per scan cycle and  *)
(* never stops, so the call is taken again and again                        *)
(***************************************************************************)
PersistScans ==
    { Pair(Reading(15, 0), Reading(15, 0)),
      Pair(Reading(60, 0), Reading(15, 1)),
      Pair(Reading(15, 1), Reading(210, 0)) }

PersistCheck ==
    \E mask \in {ALL_SENSORS, {0}}, rb \in BOOLEAN, sns \in PersistScans :
        /\ checkSensor(mask, rb, sns)
        /\ nmlRun' = NmlRunAfter(mask, sns)
        /\ stuckRun' = StuckRunAfter(mask, sns)
        /\ UNCHANGED <<scenario, nmlSeen, stuckSeen, twin, calls>>

SpecPersist == Init /\ [][PersistCheck]_vars /\ WF_vars(PersistCheck)

(***************************************************************************)
(* Two invocations of checkSensor that both examine sensor RaceSensor, run  *)
(* at the granularity of the reads and writes of the static counters. The   *)
(* counters are plain static arrays without any lock, so the steps of the   *)
(* two invocations interleave in every order. Before the two invocations    *)
(* begin, checkSensor is called any number of times, one call at a time.    *)
(***************************************************************************)
RaceSensor == 0

RaceScans ==
    { Pair(r, Reading(15, 0)) : r \in {Reading(60, 1), Reading(15, 1), Reading(450, 0)} }

\* faulty variant: the value read is written back as it is
IncrementedNot(value) == value

\* counter++ : the value written back
Incremented(value) == value + 1

\* the record of invocation p, and the sensor and thresholds it reads
Inv(p) == calls.inv[p]

RaceReading == sensorContext[RaceSensor]

RaceContext == config.widgetContext[ReadContext]

Goto(p, pc) == [calls EXCEPT !.inv[p].pc = pc]

\* a call made alone, before the two invocations begin
RaceSerialCall ==
    /\ calls.order = <<>>
    /\ \E sns \in RaceScans : checkSensor(Shl1(RaceSensor), FALSE, sns)
    /\ UNCHANGED <<scenario, nmlRun, nmlSeen, stuckRun, stuckSeen, twin, calls>>

\* invocation p is entered: result = 0; the first to enter finds new scan results
Enter(p) ==
    /\ Inv(p).pc = "idle"
    /\ IF calls.order = <<>>
       THEN sensorContext' \in RaceScans
       ELSE UNCHANGED sensorContext
    /\ calls' = [calls EXCEPT
                   !.inv[p] = [pc |-> "hyper", reg |-> 0, result |-> {}],
                   !.start = IF calls.order = <<>>
                             THEN [noMansLandCounter |-> noMansLandCounter,
                                   stuckCounter |-> stuckCounter]
                             ELSE @,
                   !.order = Append(@, p),
                   !.overlap = @ \/ \E q \in Invocations \ {p} :
                                        calls.inv[q].pc \notin {"idle", "done"}]
    /\ UNCHANGED <<config, noMansLandCounter, stuckCounter, sensorMask, resetBaseline,
                   result, events, scenario, nmlRun, nmlSeen, stuckRun, stuckSeen, twin>>

RaceFrame ==
    UNCHANGED <<config, sensorContext, sensorMask, resetBaseline, result, events,
                scenario, nmlRun, nmlSeen, stuckRun, stuckSeen, twin>>

\* test for hyper event: no counter involved
HyperStep(p) ==
    /\ Inv(p).pc = "hyper"
    /\ calls' = [calls EXCEPT
                   !.inv[p].pc = "nml",
                   !.inv[p].result = IF HyperCondition(RaceReading, RaceContext)
                                     THEN Or(@, Shl1(RaceSensor)) ELSE @]
    /\ UNCHANGED <<noMansLandCounter, stuckCounter>>
    /\ RaceFrame

\* noMansLandCounter[sensorIndex]++ : the read
NmlLoad(p) ==
    /\ Inv(p).pc = "nml"
    /\ calls' = IF NoMansLandCondition(RaceReading, RaceContext)
                THEN [calls EXCEPT !.inv[p].pc = "nmlStore",
                                   !.inv[p].reg = noMansLandCounter[RaceSensor]]
                ELSE Goto(p, "stuck")
    /\ UNCHANGED <<noMansLandCounter, stuckCounter>>
    /\ RaceFrame

\* noMansLandCounter[sensorIndex]++ : the write
NmlStore(p) ==
    /\ Inv(p).pc = "nmlStore"
    /\ noMansLandCounter' = [noMansLandCounter EXCEPT ![RaceSensor] = Incremented(Inv(p).reg)]
    /\ calls' = Goto(p, "nmlCompare")
    /\ UNCHANGED stuckCounter
    /\ RaceFrame

\* if(noMansLandCounter[sensorIndex] > NO_MANS_LAND_COUNT): the compiled code
\* compares the value it just wrote or reads the counter again
NmlCompare(p) ==
    /\ Inv(p).pc = "nmlCompare"
    /\ \E seen \in {Incremented(Inv(p).reg), noMansLandCounter[RaceSensor]} :
          calls' = IF NoMansLandExceeded(seen)
                   THEN [calls EXCEPT !.inv[p].pc = "nmlClear",
                                      !.inv[p].result = Or(@, Shl1(RaceSensor))]
                   ELSE Goto(p, "stuck")
    /\ UNCHANGED <<noMansLandCounter, stuckCounter>>
    /\ RaceFrame

\* noMansLandCounter[sensorIndex] = 0
NmlClear(p) ==
    /\ Inv(p).pc = "nmlClear"
    /\ noMansLandCounter' = [noMansLandCounter EXCEPT ![RaceSensor] = 0]
    /\ calls' = Goto(p, "stuck")
    /\ UNCHANGED stuckCounter
    /\ RaceFrame

\* stuckCounter[sensorIndex]++ : the read
StuckLoad(p) ==
    /\ Inv(p).pc = "stuck"
    /\ calls' = IF StuckCondition(RaceReading)
                THEN [calls EXCEPT !.inv[p].pc = "stuckStore",
                                   !.inv[p].reg = stuckCounter[RaceSensor]]
                ELSE Goto(p, "done")
    /\ UNCHANGED <<noMansLandCounter, stuckCounter>>
    /\ RaceFrame

\* stuckCounter[sensorIndex]++ : the write
StuckStore(p) ==
    /\ Inv(p).pc = "stuckStore"
    /\ stuckCounter' = [stuckCounter EXCEPT ![RaceSensor] = Incremented(Inv(p).reg)]
    /\ calls' = Goto(p, "stuckCompare")
    /\ UNCHANGED noMansLandCounter
    /\ RaceFrame

\* if(stuckCounter[sensorIndex] > STUCK_SENSOR_COUNT)
StuckCompare(p) ==
    /\ Inv(p).pc = "stuckCompare"
    /\ \E seen \in {Incremented(Inv(p).reg), stuckCounter[RaceSensor]} :
          calls' = IF StuckExceeded(seen)
                   THEN [calls EXCEPT !.inv[p].pc = "stuckClear",
                                      !.inv[p].result = Or(@, Shl1(RaceSensor))]
                   ELSE Goto(p, "done")
    /\ UNCHANGED <<noMansLandCounter, stuckCounter>>
    /\ RaceFrame

\* stuckCounter[sensorIndex] = 0
StuckClear(p) ==
    /\ Inv(p).pc = "stuckClear"
    /\ stuckCounter' = [stuckCounter EXCEPT ![RaceSensor] = 0]
    /\ calls' = Goto(p, "done")
    /\ UNCHANGED noMansLandCounter
    /\ RaceFrame

RaceNext ==
    \/ RaceSerialCall
    \/ \E p \in Invocations :
          \/ Enter(p)
          \/ HyperStep(p)
          \/ NmlLoad(p)
          \/ NmlStore(p)
          \/ NmlCompare(p)
          \/ NmlClear(p)
          \/ StuckLoad(p)
          \/ StuckStore(p)
          \/ StuckCompare(p)
          \/ StuckClear(p)

SpecRace == Init /\ [][RaceNext]_vars

(***************************************************************************)
(* Two runs that agree, call by call, on the selector bit, signal and       *)
(* status of one sensor (the focus, chosen by the first call) and differ on *)
(* the other sensor                                                         *)
(***************************************************************************)
\* what the sensor the runs agree on reads, and what the other sensor reads
\* in the first and in the second run
IndepReadings == {Reading(60, 1), Reading(250, 0)}

OtherReading == Reading(15, 1)

OtherReadingTwin == Reading(60, 0)

\* the sensor the two runs agree on
Focus == twin.focus

\* the call of the second run: selector mask2, scan results sns2, from the
\* counters the second run has reached
independentTwin(focus, mask2, rb, sns2) ==
    \E ret \in {Run(CapSense(config, sns2), twin.noMansLandCounter,
                     twin.stuckCounter, mask2, rb)} :
        twin' = [noMansLandCounter |-> ret.noMansLandCounter,
                 stuckCounter |-> ret.stuckCounter,
                 result |-> ret.result,
                 resetBaseline |-> rb,
                 events |-> ret.events,
                 sensorMask |-> mask2,
                 sensorContext |-> sns2,
                 focus |-> focus]

IndepCheck ==
    \E focus \in (IF "focus" \in DOMAIN twin THEN {twin.focus} ELSE SensorIds),
       mask \in SensorMasks, rb \in BOOLEAN,
       r \in IndepReadings, otherBit \in BOOLEAN :
        LET other == 1 - focus
            sns   == [k \in SensorIds |-> IF k = focus THEN r ELSE OtherReading]
            mask2 == IF otherBit THEN And(mask, SensorIds) \cup {other}
                     ELSE And(mask, SensorIds) \ {other}
            sns2  == [sns EXCEPT ![other] = OtherReadingTwin]
        IN  /\ checkSensor(mask, rb, sns)
            /\ independentTwin(focus, mask2, rb, sns2)
            /\ UNCHANGED <<scenario, nmlRun, nmlSeen, stuckRun, stuckSeen, calls>>

SpecIndep == Init /\ [][IndepCheck]_vars

(***************************************************************************)
(* Properties                                                              *)
(***************************************************************************)

\* C1: in the end-to-end scenario (widget A: one sensor, FT=100, NT=20,
\* HYST=10; widget B: one sensor, FT=200, NT=50, HYST=20; all sensors
\* selected, no reset, nothing touched) the first call (A at 250) returns
\* 0b01, the second (A at 15) returns 0, the next NO_MANS_LAND_COUNT calls
\* (B at 210) return 0, and the call after them returns 0b10 with B's
\* no-man's-land counter back at 0.
EndToEndScenario ==
    /\ scenario = 1 => result = {0}
    /\ scenario = 2 => result = {}
    /\ scenario \in 3 .. (NO_MANS_LAND_COUNT + 2) => result = {}
    /\ scenario = NO_MANS_LAND_COUNT + 3 => result = {1} /\ noMansLandCounter[1] = 0

\* C2: a selected sensor whose signal is above HYPER_EVENT_FTH_MULTIPLIER
\* times the finger threshold of its own widget has its bit set in the mask
\* the call returns, whatever its counters and resetBaseline are.
HyperEventFlagsOwnWidget ==
    \A i \in SensorIds :
        (Selected(i) /\ HyperCondition(sensorContext[i], OwnContext(i))) => i \in result

\* C3: a call leaves untouched every sensor k whose selector bit is clear:
\* bit k of the returned mask is 0, both counters of k keep their values and
\* no baseline reset is made for k, whatever k's signal, status and counters.
UnselectedUntouched ==
    [][\A k \in SensorIds :
          k \notin sensorMask' =>
              /\ k \notin result'
              /\ noMansLandCounter'[k] = noMansLandCounter[k]
              /\ stuckCounter'[k] = stuckCounter[k]
              /\ \A p \in DOMAIN events' :
                    /\ events'[p].op = "report" => events'[p].bit # k
                    /\ events'[p].op = "InitializeSensorBaseline" =>
                          FlatIndex(config, events'[p].widgetId, events'[p].sensorId) # k]_vars

\* a call passed over a sensor that was far above its finger threshold and
\* touched, with both counters running, while it reset and reported another
UnselectedWitness ==
    \E k \in SensorIds :
        /\ sensorMask # {} /\ ~Selected(k)
        /\ HyperCondition(sensorContext[k], OwnContext(k))
        /\ StuckCondition(sensorContext[k])
        /\ noMansLandCounter[k] > 0 /\ stuckCounter[k] > 0
        /\ resetBaseline /\ result # {}

\* C4: bit i of the returned mask is set if and only if i is a configured
\* sensor, i is selected, and in this call i's signal met the hyper-event
\* condition of its widget or i's no-man's-land counter or stuck counter
\* exceeded its count.
ResultBitIffRuleTripped ==
    \A i \in BitPositions :
        i \in result <=>
            /\ i \in SensorIds
            /\ Selected(i)
            /\ \/ HyperCondition(sensorContext[i], OwnContext(i))
               \/ Flagged(i, "nml")
               \/ Flagged(i, "stuck")

\* C5: from noMansLandCounter[i] = 0, NO_MANS_LAND_COUNT + 1 consecutive
\* selected calls of i with its signal between the noise threshold and the finger
\* threshold plus hysteresis of its widget: the no-man's-land test does not
\* report i in the first NO_MANS_LAND_COUNT of them, reports it in the last,
\* and leaves the counter at 0.
NoMansLandTrip ==
    \A i \in SensorIds :
        /\ nmlRun[i] \in 1 .. NO_MANS_LAND_COUNT => ~Flagged(i, "nml")
        /\ nmlRun[i] = NO_MANS_LAND_COUNT + 1 =>
              /\ Selected(i) => Flagged(i, "nml")
              /\ noMansLandCounter[i] = 0

\* C6 as claimed, for the sensors of the first widget: whenever the
\* no-man's-land test reports sensor i, the call ends a run of at least
\* NO_MANS_LAND_COUNT + 1 consecutive calls that selected i with its signal
\* inside the band.
NmlFlagEndsConsecutiveRun ==
    \A i \in SensorIds :
        (WidgetOf(config, i) = 0 /\ Flagged(i, "nml")) =>
            nmlSeen[i].consec >= NO_MANS_LAND_COUNT + 1

\* C6 as amended: the no-man's-land test reports sensor i in exactly the calls
\* that select i with its signal inside the band the call tests it against
\* and that are the (NO_MANS_LAND_COUNT + 1)-th such call since the test last
\* reported i (or since start); the calls counted need not be consecutive.
NmlFlagCountsInBandCalls ==
    \A i \in SensorIds :
        Flagged(i, "nml") <=>
            /\ Selected(i)
            /\ NoMansLandCondition(sensorContext[i], config.widgetContext[ReadContext])
            /\ nmlSeen[i].total = NO_MANS_LAND_COUNT + 1

\* the no-man's-land test reported a sensor whose in-band calls were
\* interrupted
NmlFlagAfterGap ==
    \E i \in SensorIds :
        Flagged(i, "nml") /\ nmlSeen[i].consec \in 1 .. NO_MANS_LAND_COUNT

\* C7: from stuckCounter[i] = 0, STUCK_SENSOR_COUNT + 1 consecutive selected
\* calls of i that find it touched: the stuck test does not report i in the first
\* STUCK_SENSOR_COUNT of them, reports it in the last, and stuckCounter[i] is 0
\* when that call returns.
StuckTrip ==
    \A i \in SensorIds :
        /\ stuckRun[i] \in 1 .. STUCK_SENSOR_COUNT => ~Flagged(i, "stuck")
        /\ stuckRun[i] = STUCK_SENSOR_COUNT + 1 =>
              /\ Selected(i) => Flagged(i, "stuck")
              /\ stuckCounter[i] = 0

\* a streak of STUCK_SENSOR_COUNT + 1 touched calls is complete
StuckTripReached ==
    \E i \in SensorIds :
        stuckRun[i] = STUCK_SENSOR_COUNT + 1 /\ Selected(i) /\ Flagged(i, "stuck")

\* C8 as claimed: once a call has selected sensor i and found it untouched,
\* the stuck test reports i only after STUCK_SENSOR_COUNT + 1 further selected
\* touched calls counted from that untouched call.
StuckFlagNeedsFullStreakAfterGap ==
    \A i \in SensorIds :
        (Flagged(i, "stuck") /\ stuckSeen[i].sinceGap # -1) =>
            stuckSeen[i].sinceGap >= STUCK_SENSOR_COUNT + 1

\* C8 as amended: an untouched call does not reset the streak requirement.
\* The stuck test reports sensor i in exactly the calls that select i, find it
\* touched and are the (STUCK_SENSOR_COUNT + 1)-th such call since the test
\* last reported i (or since start), with or without untouched calls between.
StuckFlagCountsTouchedCalls ==
    \A i \in SensorIds :
        Flagged(i, "stuck") <=>
            /\ Selected(i)
            /\ StuckCondition(sensorContext[i])
            /\ stuckSeen[i].total = STUCK_SENSOR_COUNT + 1

\* the stuck test reported a sensor sooner after an untouched call than a
\* full streak
StuckFlagAfterGap ==
    \E i \in SensorIds :
        Flagged(i, "stuck") /\ stuckSeen[i].sinceGap \in 1 .. STUCK_SENSOR_COUNT

\* C9: two runs that start from equal counters and get the same selectors and
\* scan results, but their own resetBaseline arguments, return the same mask
\* from every call and have equal counters after every call.
ResetBaselineNoInfluence ==
    /\ twin.result = result
    /\ twin.noMansLandCounter = noMansLandCounter
    /\ twin.stuckCounter = stuckCounter

\* the two runs differed in resetBaseline on a call that reported a sensor and
\* cleared a counter, with other counters running
ResetBaselineDiffers ==
    /\ twin.resetBaseline # resetBaseline
    /\ \E i \in SensorIds : Flagged(i, "nml") \/ Flagged(i, "stuck")
    /\ \E i \in SensorIds : stuckCounter[i] > 0

\* C10: in a call the baseline of sensor i is reset if and only if
\* resetBaseline is true and bit i of the returned mask is set; every reset
\* names the widget of the sensor and the sensor's index within the widget
\* and comes right before that sensor's bit is recorded; every recording of a
\* bit is preceded by a reset when resetBaseline is true; without
\* resetBaseline no reset is made.
BaselineResetIffFlagged ==
    /\ \A i \in SensorIds : ResetFor(i) <=> (resetBaseline /\ i \in result)
    /\ \A p \in DOMAIN events :
          events[p].op = "InitializeSensorBaseline" =>
              /\ resetBaseline
              /\ p < Len(events)
              /\ events[p + 1].op = "report"
              /\ events[p].widgetId = WidgetOf(config, events[p + 1].bit)
              /\ events[p].sensorId = SnsNumOf(config, events[p + 1].bit)
    /\ \A p \in DOMAIN events :
          (events[p].op = "report" /\ resetBaseline) =>
              p > 1 /\ events[p - 1].op = "InitializeSensorBaseline"

\* a call reset the baseline of the second sensor of a widget and of a sensor
\* of the first widget
BaselineResetWitness ==
    /\ resetBaseline
    /\ \E i \in SensorIds : SnsNumOf(config, i) > 0 /\ ResetFor(i)
    /\ ResetFor(0)

\* the sensors the last call examined, in the order it examined them
RECURSIVE ExaminedIn(_)
ExaminedIn(evs) ==
    IF evs = <<>> THEN <<>>
    ELSE IF Head(evs).op = "examine"
         THEN <<[bit |-> Head(evs).bit, widgetId |-> Head(evs).widgetId,
                 sensorId |-> Head(evs).sensorId]>> \o ExaminedIn(Tail(evs))
         ELSE ExaminedIn(Tail(evs))

\* C11: a call with sensorSelector = ALL_SENSORS examines every configured
\* sensor 0..N-1 exactly once, in increasing index order (widget by widget,
\* sensor by sensor within the widget), for configurations of up to 32
\* sensors; and a call from the same state whose selector agrees on bits
\* 0..N-1 and differs at most in higher bits returns the same mask, leaves
\* the same counters and makes the same resets, reports and examinations.
AllSensorsExaminesEverySensor ==
    /\ sensorMask = ALL_SENSORS =>
          ExaminedIn(events) =
              [k \in 1 .. NumSensors(config) |->
                  [bit |-> k - 1,
                   widgetId |-> WidgetOf(config, k - 1),
                   sensorId |-> SnsNumOf(config, k - 1)]]
    /\ ("sensorMask" \in DOMAIN twin
          /\ And(twin.sensorMask, SensorIds) = And(sensorMask, SensorIds)) =>
          /\ twin.result = result
          /\ twin.noMansLandCounter = noMansLandCounter
          /\ twin.stuckCounter = stuckCounter
          /\ twin.events = events

\* a call with ALL_SENSORS and a call from the same state with only the bits
\* of the two configured sensors set both flagged a sensor and reset its
\* baseline
HighSelectorBitsIgnored ==
    /\ "sensorMask" \in DOMAIN twin
    /\ sensorMask = ALL_SENSORS
    /\ twin.sensorMask = SensorIds
    /\ twin.sensorMask # sensorMask
    /\ resetBaseline
    /\ \E i \in SensorIds : i \in result /\ i \in twin.result /\ ResetFor(i)
    /\ Len(ExaminedIn(events)) = NumSensors(config)

\* the value a counter takes in a call that examines its sensor: unchanged
\* when the rule's condition does not hold, one more when it holds and the
\* threshold is not exceeded, 0 when the incremented value exceeds it
CounterAfter(count, condition, threshold) ==
    IF ~condition THEN count
    ELSE IF count + 1 > threshold THEN 0
    ELSE count + 1

\* C12: in every call each counter of an examined sensor stays unchanged
\* (the condition of its rule does not hold for the sensor: signal outside the
\* band of the sensor's widget, resp. not touched), goes up by exactly 1
\* (condition holds, threshold not exceeded) or becomes 0 (condition holds
\* and the incremented value exceeds the threshold); so no call decrements a
\* counter or clears it because the condition stopped holding, and neither
\* rule changes the counter of the other.
CountersStepOrClear ==
    [][\A i \in SensorIds :
          i \in sensorMask' =>
              /\ noMansLandCounter'[i] =
                     CounterAfter(noMansLandCounter[i],
                                  NoMansLandCondition(sensorContext'[i], OwnContext(i)),
                                  NO_MANS_LAND_COUNT)
              /\ stuckCounter'[i] =
                     CounterAfter(stuckCounter[i],
                                  StuckCondition(sensorContext'[i]),
                                  STUCK_SENSOR_COUNT)]_vars

\* C13: a call in which a selected sensor is above the hyper-event level of
\* its widget, outside the no-man's-land band of its widget and not reported
\* touched leaves both counters of the sensor as they were, with and without
\* resetBaseline.
HyperEventKeepsCounters ==
    [][\A i \in SensorIds :
          ( /\ i \in sensorMask'
            /\ HyperCondition(sensorContext'[i], OwnContext(i))
            /\ ~NoMansLandCondition(sensorContext'[i], OwnContext(i))
            /\ ~StuckCondition(sensorContext'[i]) ) =>
              /\ noMansLandCounter'[i] = noMansLandCounter[i]
              /\ stuckCounter'[i] = stuckCounter[i]]_vars

\* the rules that reported sensor i in the calls' events evs, in order
RECURSIVE RulesReported(_, _)
RulesReported(evs, i) ==
    IF evs = <<>> THEN <<>>
    ELSE IF Head(evs).op = "report" /\ Head(evs).bit = i
         THEN <<Head(evs).rule>> \o RulesReported(Tail(evs), i)
         ELSE RulesReported(Tail(evs), i)

\* the number of baseline resets made for sensor i in evs
RECURSIVE ResetsMade(_, _)
ResetsMade(evs, i) ==
    IF evs = <<>> THEN 0
    ELSE (IF Head(evs) = [op |-> "InitializeSensorBaseline",
                          widgetId |-> WidgetOf(config, i),
                          sensorId |-> SnsNumOf(config, i)]
          THEN 1 ELSE 0) + ResetsMade(Tail(evs), i)

RuleRank(rule) == CASE rule = "hyper" -> 1 [] rule = "nml" -> 2 [] rule = "stuck" -> 3

\* sensor i as the sensor loop reaches it in a call made in the current state
AtSensor(i) ==
    [Entry(noMansLandCounter, stuckCounter) EXCEPT !.sensorIndex = i, !.ptrSensors = i]

\* what one test, made alone on sensor i in the current state, leaves behind
HyperAlone(i, sns, rb) ==
    HyperEventTest(AtSensor(i), CapSense(config, sns),
                   WidgetOf(config, i), SnsNumOf(config, i), rb)

NoMansLandAlone(i, sns, rb) ==
    NoMansLandTest(AtSensor(i), CapSense(config, sns),
                   WidgetOf(config, i), SnsNumOf(config, i), rb)

StuckAlone(i, sns, rb) ==
    StuckSensorTest(AtSensor(i), CapSense(config, sns),
                    WidgetOf(config, i), SnsNumOf(config, i), rb)

\* C14: in every call every examined sensor goes through all three tests,
\* in the order hyper event, no man's land, stuck, whether or not an earlier
\* test tripped: each test reports the sensor exactly when it would, made
\* alone on the state before the call, and leaves its counter as it would
\* then; the reports come in that order, at most one per rule; the sensor
\* has its single bit in the result if and only if some rule tripped; and
\* the number of baseline resets made for the sensor is the number of rules
\* that tripped when resetBaseline is true, and 0 when it is false.
EveryRuleEvaluated ==
    [][\A i \in SensorIds :
          i \in sensorMask' =>
              LET rules  == RulesReported(events', i)
                  hyper  == HyperAlone(i, sensorContext', resetBaseline')
                  nml    == NoMansLandAlone(i, sensorContext', resetBaseline')
                  stuck  == StuckAlone(i, sensorContext', resetBaseline')
                  Has(r) == \E p \in DOMAIN rules : rules[p] = r
              IN  /\ \A p, q \in DOMAIN rules :
                        p < q => RuleRank(rules[p]) < RuleRank(rules[q])
                  /\ Has("hyper") <=> hyper.result # {}
                  /\ Has("nml") <=> nml.result # {}
                  /\ Has("stuck") <=> stuck.result # {}
                  /\ noMansLandCounter'[i] = nml.noMansLandCounter[i]
                  /\ stuckCounter'[i] = stuck.stuckCounter[i]
                  /\ i \in result' <=> rules # <<>>
                  /\ ResetsMade(events', i) = IF resetBaseline' THEN Len(rules) ELSE 0]_vars

\* a call with resetBaseline in which all three rules tripped for a sensor:
\* three reports in order, three baseline resets, one bit
ThreeRulesTripped ==
    \E i \in SensorIds :
        /\ resetBaseline
        /\ Selected(i)
        /\ RulesReported(events, i) = <<"hyper", "nml", "stuck">>
        /\ ResetsMade(events, i) = 3
        /\ i \in result

\* the last call selected sensor i and found it touched
StuckPersists(i) == Selected(i) /\ StuckCondition(sensorContext[i])

\* the last call selected sensor i and found its signal inside the
\* no-man's-land band of its widget
NoMansLandPersists(i) ==
    Selected(i) /\ NoMansLandCondition(sensorContext[i], OwnContext(i))

\* the last call reported sensor i by the rule, and reset its baseline if
\* resetBaseline was true
Reflagged(i, rule) == Flagged(i, rule) /\ (resetBaseline => ResetFor(i))

\* C15: if from some call on every call selects sensor i and finds it
\* touched (resp. finds its signal inside the no-man's-land band of its
\* widget), then the stuck rule (resp. the no-man's-land rule) reports i
\* again and again, resetting its baseline each time resetBaseline is true;
\* and at every time, counted from a call that began with the counter at 0,
\* the rule reports i on the (STUCK_SENSOR_COUNT + 1)-th (resp.
\* (NO_MANS_LAND_COUNT + 1)-th) such call in a row and on none before it.
PersistingAnomalyReflagged ==
    /\ \A i \in {0, 1} :
          /\ <>[]StuckPersists(i) => []<>Reflagged(i, "stuck")
          /\ <>[]NoMansLandPersists(i) => []<>Reflagged(i, "nml")
    /\ [](StuckTrip /\ NoMansLandTrip)

\* the two calls made one after the other from the counters the invocations
\* began with: what the first and the second return and leave behind
SerialFirst ==
    Run(CapSense(config, sensorContext), calls.start.noMansLandCounter,
        calls.start.stuckCounter, Shl1(RaceSensor), FALSE)

SerialSecond ==
    Run(CapSense(config, sensorContext), SerialFirst.noMansLandCounter,
        SerialFirst.stuckCounter, Shl1(RaceSensor), FALSE)

BothDone == \A p \in Invocations : Inv(p).pc = "done"

\* the outcome of the two invocations is the outcome of the two calls made
\* one after the other, invocation p first
SerialOutcome(p, q) ==
    /\ noMansLandCounter = SerialSecond.noMansLandCounter
    /\ stuckCounter = SerialSecond.stuckCounter
    /\ Inv(p).result = SerialFirst.result
    /\ Inv(q).result = SerialSecond.result

\* C16, serialized calls: when one invocation has returned before the other
\* is entered, the counters and the returned masks are those of the two
\* calls made one after the other in that order, and after the first
\* invocation alone those of one call.
SerializedCallsDoNotRace ==
    /\ (BothDone /\ ~calls.overlap) => SerialOutcome(calls.order[1], calls.order[2])
    /\ \A p \in Invocations :
          (Inv(p).pc = "done" /\ \A q \in Invocations \ {p} : Inv(q).pc = "idle") =>
              /\ noMansLandCounter = SerialFirst.noMansLandCounter
              /\ stuckCounter = SerialFirst.stuckCounter
              /\ Inv(p).result = SerialFirst.result

\* C16, interleaved calls: two invocations that overlapped have returned
\* with counters or masks that neither order of the two calls made one
\* after the other gives
RaceOutcomeNotSerial ==
    /\ BothDone
    /\ calls.overlap
    /\ ~SerialOutcome(1, 2)
    /\ ~SerialOutcome(2, 1)

\* C17: whenever a call has returned, every noMansLandCounter[i] is in
\* 0..NO_MANS_LAND_COUNT and every stuckCounter[i] is in
\* 0..STUCK_SENSOR_COUNT, far below the top of a 32-bit unsigned counter;
\* the counters are those of the configured sensors 0..N-1 and the call
\* examined, reported and counted configured sensors only.
CountersWithinBounds ==
    /\ DOMAIN noMansLandCounter = SensorIds
    /\ DOMAIN stuckCounter = SensorIds
    /\ \A i \in SensorIds :
          /\ noMansLandCounter[i] \in 0 .. NO_MANS_LAND_COUNT
          /\ stuckCounter[i] \in 0 .. STUCK_SENSOR_COUNT
    /\ NO_MANS_LAND_COUNT < 2147483647
    /\ STUCK_SENSOR_COUNT < 2147483647
    /\ \A p \in DOMAIN events :
          events[p].op \in {"examine", "report"} => events[p].bit \in SensorIds
    /\ result \subseteq SensorIds

\* a call has returned with a no-man's-land counter and a stuck counter at
\* their highest values, and another has just cleared a counter by a trip
CountersAtBounds ==
    /\ \E i \in SensorIds : noMansLandCounter[i] = NO_MANS_LAND_COUNT
    /\ \E i \in SensorIds : stuckCounter[i] = STUCK_SENSOR_COUNT
    /\ \E i \in SensorIds : Flagged(i, "stuck") /\ stuckCounter[i] = 0

\* C18: two runs that agree in every call on the selector bit, signal and
\* status of sensor i (and begin with the same counters and use the same
\* configuration) and differ in the selector bits, signals, statuses and
\* counters of the other sensor give, after every call, the same result bit,
\* the same two counters, the same reports and the same baseline resets for
\* sensor i.
SensorsIndependent ==
    "focus" \in DOMAIN twin =>
        /\ Focus \in result <=> Focus \in twin.result
        /\ noMansLandCounter[Focus] = twin.noMansLandCounter[Focus]
        /\ stuckCounter[Focus] = twin.stuckCounter[Focus]
        /\ RulesReported(events, Focus) = RulesReported(twin.events, Focus)
        /\ ResetsMade(events, Focus) = ResetsMade(twin.events, Focus)

\* the two runs differ in the selector bit, signal, status, no-man's-land
\* counter and result bit of the other sensor, while the sensor they agree
\* on, of the second widget, is reported and has its baseline reset in both
OtherSensorDiffers ==
    /\ "focus" \in DOMAIN twin
    /\ Focus = 1 /\ WidgetOf(config, 1) = 1
    /\ Selected(0) /\ 0 \notin twin.sensorMask
    /\ sensorContext[0] # twin.sensorContext[0]
    /\ noMansLandCounter[0] # twin.noMansLandCounter[0]
    /\ 0 \in result /\ 0 \notin twin.result
    /\ 1 \in result /\ ResetsMade(events, 1) > 0 /\ ResetsMade(twin.events, 1) > 0

====
